---- MODULE Spec2Model ----
(***************************************************************************)
(* Model of the call-analysis endpoint POST /api/analyze-call, of its      *)
(* score parser parseNumericScore, and of the client page that submits a   *)
(* file to the endpoint.                                                    *)
(*                                                                          *)
(* A text (a JavaScript string) is a sequence of one-character strings, so  *)
(* that startsWith, includes, toLowerCase, trim and the regular expression  *)
(* /-?\d+/ are computed character by character.  The fixed notices the      *)
(* handler writes into overallFeedback / observation are never inspected by *)
(* the code; each is a text of one opaque symbol.                           *)
(***************************************************************************)
EXTENDS Integers, Sequences, FiniteSets, TLC

VARIABLES
    \* ---- parseNumericScore applied on its own (specification SpecParse)
    llmResponseText,        \* argument: the reply text
    weight,                 \* argument: the parameter's weight
    inputType,              \* argument: "PASS_FAIL" | "SCORE"
    parseResult,            \* the value returned
    parsePc,                \* "idle" | "call" | "returned"
    \* ---- one request handled by POST (specification Spec)
    revision,               \* which revision of route.ts handles the request
    apiKeyConfigured,       \* process.env.OPENAI_API_KEY is set
    formData,               \* what request.formData() yields
    pc,                     \* position of the handler
    idx,                    \* index of the rubric parameter in the loop
    transcript,             \* local transcript
    generatedScores,        \* local generatedScores / mockedScores
    analysisHadQuotaError,  \* local analysisHadQuotaError
    overallFeedback,        \* local overallFeedback
    observation,            \* local observation
    response,               \* the NextResponse returned, or NoResponse
    \* ---- history of the request (not read by the handler)
    calls,                  \* external calls issued so far, in order
    outstanding,            \* external calls issued and not yet returned
    lastReply,              \* value returned by the latest getLLMResponse
    firstScoreReply,        \* value returned by the first scoring call
    quotaSeen,              \* some scoring call returned "ERROR_QUOTA"
    feedbackReply,          \* value returned by the feedback call
    observationReply,       \* value returned by the observation call
    transcriptionOutcome,   \* what the transcription call did
    \* ---- the client page (specification SpecClient)
    clientRevision,         \* which revision of page.tsx runs in the browser
    selectedFile,           \* useState selectedFile
    audioSrc,               \* useState audioSrc: the file the object URL is of
    feedback,               \* useState feedback
    isLoading,              \* useState isLoading
    error,                  \* useState error
    isDragging,             \* useState isDragging
    \* ---- history of the page (not read by the page)
    inFlight,               \* files of the fetches sent and not yet settled
    lastEvent,              \* the handler that ran last
    handled                 \* the reply the last settled fetch got

parseVars == <<llmResponseText, weight, inputType, parseResult, parsePc>>

postVars == <<revision, apiKeyConfigured, formData, pc, idx, transcript,
              generatedScores, analysisHadQuotaError, overallFeedback,
              observation, response>>

historyVars == <<calls, outstanding, lastReply, firstScoreReply, quotaSeen,
                 feedbackReply, observationReply, transcriptionOutcome>>

clientVars == <<clientRevision, selectedFile, audioSrc, feedback, isLoading,
                error, isDragging, inFlight, lastEvent, handled>>

vars == <<parseVars, postVars, historyVars, clientVars>>

-----------------------------------------------------------------------------
(* Texts *)

Digits == {"0", "1", "2", "3", "4", "5", "6", "7", "8", "9"}

IsDigit(c) == c \in Digits

DigitValue(c) ==
    CASE c = "0" -> 0 [] c = "1" -> 1 [] c = "2" -> 2 [] c = "3" -> 3
      [] c = "4" -> 4 [] c = "5" -> 5 [] c = "6" -> 6 [] c = "7" -> 7
      [] c = "8" -> 8 [] c = "9" -> 9

DigitChar(d) ==
    CASE d = 0 -> "0" [] d = 1 -> "1" [] d = 2 -> "2" [] d = 3 -> "3"
      [] d = 4 -> "4" [] d = 5 -> "5" [] d = 6 -> "6" [] d = 7 -> "7"
      [] d = 8 -> "8" [] d = 9 -> "9"

\* String.prototype.toLowerCase on one character of the model's alphabet.
LowerChar(c) ==
    CASE c = "A" -> "a" [] c = "E" -> "e" [] c = "F" -> "f" [] c = "I" -> "i"
      [] c = "L" -> "l" [] c = "N" -> "n" [] c = "O" -> "o" [] c = "P" -> "p"
      [] c = "Q" -> "q" [] c = "R" -> "r" [] c = "S" -> "s" [] c = "T" -> "t"
      [] c = "U" -> "u" [] c = "Y" -> "y"
      [] OTHER -> c

toLowerCase(text) == [i \in 1..Len(text) |-> LowerChar(text[i])]

startsWith(text, prefix) ==
    /\ Len(text) >= Len(prefix)
    /\ SubSeq(text, 1, Len(prefix)) = prefix

includes(text, sub) ==
    \E p \in 1..(Len(text) - Len(sub) + 1) :
        SubSeq(text, p, p + Len(sub) - 1) = sub

IsSpace(c) == c = " "

RECURSIVE trimStart(_)
trimStart(text) ==
    IF text # <<>> /\ IsSpace(Head(text)) THEN trimStart(Tail(text)) ELSE text

RECURSIVE trimEnd(_)
trimEnd(text) ==
    IF text # <<>> /\ IsSpace(text[Len(text)])
    THEN trimEnd(SubSeq(text, 1, Len(text) - 1))
    ELSE text

trim(text) == trimEnd(trimStart(text))

\* String(n) for a non-negative integer n.
RECURSIVE DecimalString(_)
DecimalString(n) ==
    IF n < 10 THEN <<DigitChar(n)>>
    ELSE Append(DecimalString(n \div 10), DigitChar(n % 10))

\* The texts of the sentinels and keywords the code names.
ErrorPrefix == <<"E", "R", "R", "O", "R", "_">>
ErrorQuota  == ErrorPrefix \o <<"Q", "U", "O", "T", "A">>
ErrorApi    == ErrorPrefix \o <<"A", "P", "I">>
KwPass == <<"p", "a", "s", "s">>
KwYes  == <<"y", "e", "s">>
KwFail == <<"f", "a", "i", "l">>
KwNo   == <<"n", "o">>
KwZero == <<"0">>

-----------------------------------------------------------------------------
(* llmResponseText.match(/-?\d+/) and parseInt(numericMatch[0], 10) *)

\* Positions where the regular expression can start matching.
MatchStarts(text) ==
    {p \in 1..Len(text) :
        \/ IsDigit(text[p])
        \/ text[p] = "-" /\ p < Len(text) /\ IsDigit(text[p + 1])}

\* Last position of the greedy digit run that starts at position p.
RECURSIVE DigitRunEnd(_, _)
DigitRunEnd(text, p) ==
    IF p < Len(text) /\ IsDigit(text[p + 1]) THEN DigitRunEnd(text, p + 1) ELSE p

numericMatchMutantLast(text) ==
    IF MatchStarts(text) = {} THEN <<>>
    ELSE LET s == CHOOSE p \in MatchStarts(text) :
                      \A q \in MatchStarts(text) : p >= q
             d == IF text[s] = "-" THEN s + 1 ELSE s
         IN  SubSeq(text, s, DigitRunEnd(text, d))

\* numericMatch[0], or the empty text when match() returns null.
numericMatch(text) ==
    IF MatchStarts(text) = {} THEN <<>>
    ELSE LET s == CHOOSE p \in MatchStarts(text) :
                      \A q \in MatchStarts(text) : p <= q
             d == IF text[s] = "-" THEN s + 1 ELSE s
         IN  SubSeq(text, s, DigitRunEnd(text, d))

RECURSIVE DigitsValue(_)
DigitsValue(ds) ==
    IF ds = <<>> THEN 0
    ELSE 10 * DigitsValue(SubSeq(ds, 1, Len(ds) - 1)) + DigitValue(ds[Len(ds)])

parseInt(m) ==
    IF Head(m) = "-" THEN 0 - DigitsValue(Tail(m)) ELSE DigitsValue(m)

Min(a, b) == IF a < b THEN a ELSE b
Max(a, b) == IF a > b THEN a ELSE b

-----------------------------------------------------------------------------
(* The rubric table.  name and desc only feed the prompt text and are left  *)
(* out; key, weight and inputType are what the handler computes with.       *)

callEvaluationParameters ==
    << [key |-> "greeting",                 weight |-> 5,  inputType |-> "PASS_FAIL"],
       [key |-> "collectionUrgency",        weight |-> 15, inputType |-> "SCORE"],
       [key |-> "rebuttalCustomerHandling", weight |-> 15, inputType |-> "SCORE"],
       [key |-> "callEtiquette",            weight |-> 15, inputType |-> "SCORE"],
       [key |-> "callDisclaimer",           weight |-> 5,  inputType |-> "PASS_FAIL"],
       [key |-> "correctDisposition",       weight |-> 10, inputType |-> "PASS_FAIL"],
       [key |-> "callClosing",              weight |-> 5,  inputType |-> "PASS_FAIL"],
       [key |-> "fatalIdentification",      weight |-> 5,  inputType |-> "PASS_FAIL"],
       [key |-> "fatalTapeDiscloser",       weight |-> 10, inputType |-> "PASS_FAIL"],
       [key |-> "fatalToneLanguage",        weight |-> 15, inputType |-> "PASS_FAIL"] >>

NumParams == Len(callEvaluationParameters)

RubricKeys == {callEvaluationParameters[i].key : i \in 1..NumParams}

RubricWeights == {callEvaluationParameters[i].weight : i \in 1..NumParams}

WeightOf(k) ==
    LET i == CHOOSE j \in 1..NumParams : callEvaluationParameters[j].key = k
    IN  callEvaluationParameters[i].weight

InputTypes == {"PASS_FAIL", "SCORE"}

-----------------------------------------------------------------------------
(* parseNumericScore *)

\* return score > 0 ? weight : 0
PassFailMutant(score, w) == IF score > 0 THEN Min(score, w) ELSE 0
PassFailScore(score, w) == IF score > 0 THEN w ELSE 0

\* return Math.max(0, Math.min(score, weight))
ClampMutantNoMin(score, w) == Max(0, score)
ClampMutantNoMax(score, w) == Min(score, w)
ClampScore(score, w) == Max(0, Min(score, w))

\* The keyword heuristics of the branch without a numeric match.
KeywordScoreMutantCaseSensitive(text, w) ==
    IF includes(text, KwPass) \/ includes(text, KwYes) \/ includes(text, DecimalString(w))
    THEN w
    ELSE 0
KeywordScore(text, w) ==
    LET lowerResponse == toLowerCase(text)
    IN  IF \/ includes(lowerResponse, KwPass)
           \/ includes(lowerResponse, KwYes)
           \/ includes(lowerResponse, DecimalString(w))
        THEN w
        ELSE IF \/ includes(lowerResponse, KwFail)
                \/ includes(lowerResponse, KwNo)
                \/ includes(lowerResponse, KwZero)
             THEN 0
             ELSE 0

\* A variant without the early return on the "ERROR_" prefix.
ParseMutantNoSentinel(text, w, kind) ==
    LET m == numericMatch(text)
    IN  IF m # <<>>
        THEN IF kind = "PASS_FAIL"
             THEN PassFailScore(parseInt(m), w)
             ELSE ClampScore(parseInt(m), w)
        ELSE IF kind = "PASS_FAIL" THEN KeywordScore(text, w) ELSE 0

parseNumericScore(text, w, kind) ==
    IF startsWith(text, ErrorPrefix) THEN 0
    ELSE LET m == numericMatch(text)
         IN  IF m # <<>>
             THEN IF kind = "PASS_FAIL"
                  THEN PassFailScore(parseInt(m), w)
                  ELSE ClampScore(parseInt(m), w)
             ELSE IF kind = "PASS_FAIL" THEN KeywordScore(text, w) ELSE 0

-----------------------------------------------------------------------------
(* Inputs of parseNumericScore on its own *)

\* Longest reply text, counted in fragments.
MaxFragments == 3

\* Largest weight tried besides the weights of the rubric.
MaxExtraWeight == 2

Fragments ==
    { ErrorPrefix,
      <<"P", "a", "s", "s">>,
      <<"f", "a", "i", "l">>,
      <<"Y", "e", "s">>,
      <<"-">>, <<"0">>, <<"1">>, <<"8">>, <<" ">> }

RECURSIVE FragmentTexts(_)
FragmentTexts(n) ==
    IF n = 0 THEN {<<>>}
    ELSE LET shorter == FragmentTexts(n - 1)
         IN  shorter \cup {t \o f : t \in shorter, f \in Fragments}

\* Replies named by the specification's scenarios, and the two sentinels.
SampleReplies ==
    { ErrorQuota, ErrorApi,
      <<"S", "c", "o", "r", "e", ":", " ", "1", "8">>,
      <<"-", "3">>,
      <<"N", "o">> }

ReplyTexts == FragmentTexts(MaxFragments) \cup SampleReplies

ParseWeights == RubricWeights \cup (1..MaxExtraWeight)

-----------------------------------------------------------------------------
(* The revisions of route.ts and their fixed texts *)

RevLive   == "route.tsx:1-182"      \* live revision, src/src/app/api/analyze-call/route.tsx
RevLiveB  == "part_000"             \* live revision, src/unnamed/part_000
RevMocked == "route.tsx:183-287"    \* fully mocked revision

Revisions == {RevLive, RevLiveB, RevMocked}

IsLive(rev) == rev \in {RevLive, RevLiveB}

\* A fixed notice: one opaque symbol.
Notice(s) == <<s>>

NoText == Notice("(unset)")

\* let overallFeedback = "..." / let observation = "..." before the branch
InitialFeedback(rev) ==
    IF rev = RevLive
    THEN Notice("Overall feedback could not be generated due to API issues.")
    ELSE Notice("Overall feedback could not be generated due to API issues during scoring.")

InitialObservation(rev) ==
    IF rev = RevLive
    THEN Notice("Observations could not be generated due to API issues.")
    ELSE Notice("Observations could not be generated due to API issues during scoring.")

\* The texts returned when analysisHadQuotaError is set.
DegradedFeedback(rev) ==
    IF rev = RevLive
    THEN Notice("Overall feedback not generated due to API quota limits reached during scoring.")
    ELSE InitialFeedback(rev)

DegradedObservation(rev) ==
    IF rev = RevLive
    THEN Notice("Observations not generated due to API quota limits reached during scoring.")
    ELSE InitialObservation(rev)

FailedFeedback(rev) ==
    IF rev = RevLive
    THEN Notice("Overall feedback generation failed due to API error.")
    ELSE Notice("Overall feedback generation failed (API error).")

FailedObservation(rev) ==
    IF rev = RevLive
    THEN Notice("Observation generation failed due to API error.")
    ELSE Notice("Observation generation failed (API error).")

MockedFeedback    == Notice("MOCKED: The agent handled the call professionally ...")
MockedObservation == Notice("MOCKED: Customer was initially frustrated ...")
MockedTranscript  == Notice("Agent: Hello, thank you for calling Company X ...")

-----------------------------------------------------------------------------
(* The external services *)

\* What openai.chat.completions.create can do: resolve with a content,
\* resolve without one (no choice, null content), reject with an APIError of
\* status 429, reject with anything else.
CompletionContents ==
    { <<" ", "1", "8", " ">>, <<"-", "3">>, ErrorQuota }

CompletionOutcomes ==
    {[kind |-> k, content |-> <<>>] : k \in {"nocontent", "quota", "error"}}
        \cup {[kind |-> "ok", content |-> t] : t \in CompletionContents}

\* What openai.audio.transcriptions.create can do: resolve with a text,
\* reject with an APIError (status 0 stands for an APIError without status),
\* reject with another Error.
TranscriptTexts == {Notice("Agent: Hello. Customer: Hi.")}

TranscriptionOutcomes ==
    {[kind |-> "ok", status |-> 0, message |-> "", text |-> t] : t \in TranscriptTexts}
        \cup {[kind |-> "apierror", status |-> st, message |-> "upstream says no", text |-> <<>>] :
                 st \in {429, 401, 0}}
        \cup {[kind |-> "error", status |-> 0, message |-> "socket hang up", text |-> <<>>]}

NoOutcome == [kind |-> "none", status |-> 0, message |-> "", text |-> <<>>]

\* getLLMResponse: the catch block returns a sentinel for every rejection
\* and never rethrows.
PropagatesMutantOnly429Caught(outcome) == outcome.kind = "error"
getLLMResponsePropagates(outcome) == FALSE

getLLMResponse(outcome) ==
    CASE outcome.kind = "ok"        -> trim(outcome.content)
      [] outcome.kind = "nocontent" -> <<>>
      [] outcome.kind = "quota"     -> ErrorQuota
      [] outcome.kind = "error"     -> ErrorApi

-----------------------------------------------------------------------------
(* Responses *)

ResultFields == {"transcript", "scores", "overallFeedback", "observation"}

EmptyScores == [k \in {} |-> 0]

NoResponse ==
    [status |-> 0, fields |-> {}, error |-> "", details |-> "",
     transcript |-> NoText, scores |-> EmptyScores,
     overallFeedback |-> NoText, observation |-> NoText]

ErrorResponse(st, err, det, fs) ==
    [status |-> st, fields |-> fs, error |-> err, details |-> det,
     transcript |-> NoText, scores |-> EmptyScores,
     overallFeedback |-> NoText, observation |-> NoText]

\* NextResponse.json(apiResponse, { status: 200 })
ResultResponse(t, sc, fb, ob) ==
    [status |-> 200, fields |-> ResultFields, error |-> "", details |-> "",
     transcript |-> t, scores |-> sc, overallFeedback |-> fb, observation |-> ob]

\* if (!process.env.OPENAI_API_KEY) return ... { status: 500 }
ConfigErrorResponse(rev) ==
    ErrorResponse(500,
        IF rev = RevLive
        THEN "Server configuration error. OpenAI API key is missing."
        ELSE "Server configuration error: OpenAI API key is missing.",
        "", {"error"})

\* if (!audioFile) return ... { status: 400 }
NoFileResponse == ErrorResponse(400, "No audio file uploaded.", "", {"error"})

\* The outer catch of POST.
UnexpectedErrorResponse(rev, msg) ==
    ErrorResponse(500,
        IF rev = RevMocked THEN "Failed to process audio (mocked)."
        ELSE "An unexpected server error occurred.",
        msg, {"error", "details"})

\* The catch of the transcription call.
TranscriptionErrorResponse(rev, outcome) ==
    IF rev = RevLive
    THEN IF outcome.kind = "apierror" /\ outcome.status = 429
         THEN ErrorResponse(429,
                  "OpenAI API quota exceeded during transcription. Please check your billing.",
                  outcome.message, {"error", "details"})
         ELSE ErrorResponse(500, "Audio transcription failed.",
                  outcome.message, {"error", "details"})
    ELSE IF outcome.kind = "apierror"
         THEN ErrorResponse(IF outcome.status # 0 THEN outcome.status ELSE 500,
                  "OpenAI API error during transcription.",
                  outcome.message, {"error", "details", "type", "code"})
         ELSE ErrorResponse(500, "Audio transcription failed.",
                  outcome.message, {"error", "details"})

-----------------------------------------------------------------------------
(* POST: the decisions of the handler *)

FormDataInputs == {"file", "nofile", "throws"}

\* if (!process.env.OPENAI_API_KEY): only the live revisions check the key.
KeyCheckFailsMutantNoCheck(rev, key) == FALSE
KeyCheckFails(rev, key) == IsLive(rev) /\ ~key

\* if (!audioFile)
MissingFileMutantNoCheck(fd) == FALSE
MissingFile(fd) == fd = "nofile"

\* Every rejection of the transcription call returns an error response.
TranscriptionAbortsMutantOnly429(outcome) ==
    outcome.kind = "apierror" /\ outcome.status = 429
TranscriptionAborts(outcome) == outcome.kind # "ok"

\* The three branches that store generatedScores[param.key].
ScoreForMutantTrustsReply(reply, param) ==
    IF numericMatch(reply) # <<>> THEN parseInt(numericMatch(reply)) ELSE 0
ScoreForMutantErrorFullMarks(reply, param) ==
    IF reply = ErrorQuota THEN param.weight
    ELSE IF reply = ErrorApi THEN param.weight
    ELSE parseNumericScore(reply, param.weight, param.inputType)
ScoreFor(reply, param) ==
    IF reply = ErrorQuota THEN 0
    ELSE IF reply = ErrorApi THEN 0
    ELSE parseNumericScore(reply, param.weight, param.inputType)

\* analysisHadQuotaError after a scoring reply.
QuotaFlagMutantAnyError(flag, reply) == flag \/ startsWith(reply, ErrorPrefix)
QuotaFlagMutantNotSticky(flag, reply) == reply = ErrorQuota
QuotaFlagAfter(flag, reply) == flag \/ reply = ErrorQuota

\* if (analysisHadQuotaError) ... else / if (!analysisHadQuotaError)
SkipSummaryMutantNever(flag) == FALSE
SkipSummary(flag) == flag

\* if (overallFeedback.startsWith("ERROR_")) overallFeedback = "...failed..."
FeedbackTextMutantNoFallback(rev, reply) == reply
FeedbackText(rev, reply) ==
    IF startsWith(reply, ErrorPrefix) THEN FailedFeedback(rev) ELSE reply

\* if (observation.startsWith("ERROR_")) observation = "...failed..."
ObservationText(rev, reply) ==
    IF startsWith(reply, ErrorPrefix) THEN FailedObservation(rev) ELSE reply

WithScore(sc, key, v) ==
    [k \in (DOMAIN sc) \cup {key} |-> IF k = key THEN v ELSE sc[k]]

TranscriptionCall == [api |-> "transcription", purpose |-> "audioFile"]
CompletionCall(p) == [api |-> "completion", purpose |-> p]

-----------------------------------------------------------------------------
(* The mocked revision *)

\* Math.random() yields k / RandomResolution, or a value just below 1.
RandomResolution == 4

NearOne == <<999, 1000>>

RandomDraws == {<<k, RandomResolution>> : k \in 0..(RandomResolution - 1)} \cup {NearOne}

\* PASS_FAIL: Math.random() > 0.3 ? param.weight : 0
\* SCORE: Math.floor(Math.random() * (param.weight * 0.8)) + Math.floor(param.weight * 0.2)
MockScore(param, r) ==
    IF param.inputType = "PASS_FAIL"
    THEN IF r[1] * 10 > 3 * r[2] THEN param.weight ELSE 0
    ELSE (r[1] * 4 * param.weight) \div (r[2] * 5) + (param.weight \div 5)

\* mockedScores["greeting"] = 5; ["callEtiquette"] = 12; ["fatalTapeDiscloser"] = 0
MockOverrides(sc) ==
    WithScore(WithScore(WithScore(sc, "greeting", 5), "callEtiquette", 12),
              "fatalTapeDiscloser", 0)

-----------------------------------------------------------------------------
(* The client page: its two revisions, files, replies and fixed texts *)

ClientPart001 == "part_001"
ClientPage    == "page.tsx"

ClientRevisions == {ClientPart001, ClientPage}

endsWith(text, suffix) ==
    /\ Len(text) >= Len(suffix)
    /\ SubSeq(text, Len(text) - Len(suffix) + 1, Len(text)) = suffix

\* useState<File | null>(null), useState<string | null>(null)
NoFile == [name |-> <<>>, type |-> "(null)"]

Null == Notice("(null)")

\* The files a user can pick or drop: an MP3 by type, a WAV by name only,
\* and a text file.
Files ==
    { [name |-> <<"a", ".", "m", "p", "3">>, type |-> "audio/mpeg"],
      [name |-> <<"b", ".", "w", "a", "v">>, type |-> ""],
      [name |-> <<"n", ".", "t", "x", "t">>, type |-> "text/plain"] }

\* event.target.files / event.dataTransfer.files: empty, or one file.
FileLists == {<<>>} \cup {<<f>> : f \in Files}

\* A field an object does not have.
Absent == Notice("(absent)")

\* Response bodies: the AnalysisResult, a JSON object with or without a
\* message and an error string, the JSON value null, and a body that is
\* not JSON.
ResultBody == [shape |-> "result", message |-> Absent, error |-> Absent]

NoFeedback == [shape |-> "(null)", message |-> Absent, error |-> Absent]

ErrorBodies ==
    {[shape |-> "object", message |-> m, error |-> e] :
         m \in {Absent, Notice("message of the server")},
         e \in {Absent, Notice("Audio transcription failed.")}}
        \cup {[shape |-> "null", message |-> Absent, error |-> Absent],
              [shape |-> "notjson", message |-> Absent, error |-> Absent]}

NotOkStatuses ==
    { [status |-> 400, statusText |-> "Bad Request"],
      [status |-> 500, statusText |-> "Internal Server Error"] }

\* What a fetch can settle with: a rejection, an OK response, a non-OK one.
FetchReplies ==
    {[kind |-> "rejected", status |-> 0, statusText |-> "", body |-> NoFeedback]}
        \cup {[kind |-> "ok", status |-> 200, statusText |-> "OK", body |-> b] :
                 b \in {ResultBody, [shape |-> "notjson", message |-> Absent, error |-> Absent]}}
        \cup {[kind |-> "notok", status |-> st.status, statusText |-> st.statusText, body |-> b] :
                 st \in NotOkStatuses, b \in ErrorBodies}

NoFetchReply == [kind |-> "(none)", status |-> 0, statusText |-> "", body |-> NoFeedback]

InvalidTypeText == Notice("Invalid file type. Please use an MP3 or WAV file.")
SelectFirstText == Notice("Please select an audio file first.")
UnexpectedText  == Notice("An unexpected error occurred. Please try again.")

\* `API Error: ${response.status} ${response.statusText}`
ApiErrorText(reply) ==
    <<"API Error: ">> \o DecimalString(reply.status) \o <<" ", reply.statusText>>

\* The messages of the errors the browser throws: fetch rejecting, json() on
\* a body that is not JSON, json() on a body already read.
FetchFailedText == Notice("Failed to fetch")
JsonSyntaxText  == Notice("Unexpected token < in JSON")
BodyUsedTexts ==
    { Notice("Failed to execute 'json' on 'Response': body stream already read"),
      Notice("Response.json: Body has already been consumed.") }

-----------------------------------------------------------------------------
(* Initial states *)

NoReply == Notice("(no reply)")

ParseIdle ==
    /\ llmResponseText = <<>>
    /\ weight = 0
    /\ inputType = "SCORE"
    /\ parseResult = 0
    /\ parsePc = "idle"

PostFresh ==
    /\ pc = "start"
    /\ idx = 0
    /\ transcript = NoText
    /\ generatedScores = EmptyScores
    /\ analysisHadQuotaError = FALSE
    /\ overallFeedback = NoText
    /\ observation = NoText
    /\ response = NoResponse
    /\ calls = <<>>
    /\ outstanding = 0
    /\ lastReply = NoReply
    /\ firstScoreReply = NoReply
    /\ quotaSeen = FALSE
    /\ feedbackReply = NoReply
    /\ observationReply = NoReply
    /\ transcriptionOutcome = NoOutcome

\* A request arrives at one of the revisions.
\* The page as first rendered.
ClientFresh ==
    /\ selectedFile = NoFile
    /\ audioSrc = NoFile
    /\ feedback = NoFeedback
    /\ isLoading = FALSE
    /\ error = Null
    /\ isDragging = FALSE
    /\ inFlight = <<>>
    /\ lastEvent = "(none)"
    /\ handled = NoFetchReply

ClientIdle == clientRevision = ClientPart001 /\ ClientFresh

Init ==
    /\ ClientIdle
    /\ ParseIdle
    /\ revision \in Revisions
    /\ apiKeyConfigured \in BOOLEAN
    /\ formData \in FormDataInputs
    /\ PostFresh

\* parseNumericScore is about to be called on some arguments.
InitParse ==
    /\ ClientIdle
    /\ llmResponseText \in ReplyTexts
    /\ weight \in ParseWeights
    /\ inputType \in InputTypes
    /\ parseResult = 0
    /\ parsePc = "call"
    /\ revision = RevLive
    /\ apiKeyConfigured = TRUE
    /\ formData = "file"
    /\ PostFresh

-----------------------------------------------------------------------------
(* parseNumericScore applied *)

ParseCall ==
    /\ parsePc = "call"
    /\ parseResult' = parseNumericScore(llmResponseText, weight, inputType)
    /\ parsePc' = "returned"
    /\ UNCHANGED <<llmResponseText, weight, inputType, postVars, historyVars,
                   clientVars>>

-----------------------------------------------------------------------------
(* POST: the steps of the handler, one per stretch between two awaits *)

\* return NextResponse.json(...)
Finish(resp) ==
    /\ response' = resp
    /\ pc' = "done"

RejectNoKey ==
    /\ pc = "start"
    /\ KeyCheckFails(revision, apiKeyConfigured)
    /\ Finish(ConfigErrorResponse(revision))
    /\ UNCHANGED <<clientVars, parseVars, revision, apiKeyConfigured, formData, idx, transcript,
                   generatedScores, analysisHadQuotaError, overallFeedback,
                   observation, historyVars>>

\* await request.formData() rejects: the outer catch answers.
FormDataThrows ==
    /\ pc = "start"
    /\ ~KeyCheckFails(revision, apiKeyConfigured)
    /\ formData = "throws"
    /\ Finish(UnexpectedErrorResponse(revision, "Failed to parse body as FormData."))
    /\ UNCHANGED <<clientVars, parseVars, revision, apiKeyConfigured, formData, idx, transcript,
                   generatedScores, analysisHadQuotaError, overallFeedback,
                   observation, historyVars>>

RejectNoFile ==
    /\ pc = "start"
    /\ ~KeyCheckFails(revision, apiKeyConfigured)
    /\ formData # "throws"
    /\ MissingFile(formData)
    /\ Finish(NoFileResponse)
    /\ UNCHANGED <<clientVars, parseVars, revision, apiKeyConfigured, formData, idx, transcript,
                   generatedScores, analysisHadQuotaError, overallFeedback,
                   observation, historyVars>>

\* let transcript = ""; await openai.audio.transcriptions.create(...)
StartTranscription ==
    /\ pc = "start"
    /\ IsLive(revision)
    /\ ~KeyCheckFails(revision, apiKeyConfigured)
    /\ formData # "throws"
    /\ ~MissingFile(formData)
    /\ transcript' = <<>>
    /\ calls' = Append(calls, TranscriptionCall)
    /\ outstanding' = outstanding + 1
    /\ pc' = "transcribing"
    /\ UNCHANGED <<clientVars, parseVars, revision, apiKeyConfigured, formData, idx,
                   generatedScores, analysisHadQuotaError, overallFeedback,
                   observation, response, lastReply, firstScoreReply, quotaSeen,
                   feedbackReply, observationReply, transcriptionOutcome>>

TranscriptionReturnsMutantParallel(outcome) ==
    /\ pc = "transcribing"
    /\ transcriptionOutcome' = outcome
    /\ transcript' = outcome.text
    /\ generatedScores' = EmptyScores
    /\ analysisHadQuotaError' = FALSE
    /\ idx' = 1
    /\ calls' = calls \o [i \in 1..NumParams |->
                              CompletionCall(callEvaluationParameters[i].key)]
    /\ outstanding' = (outstanding - 1) + NumParams
    /\ pc' = "scoring"
    /\ UNCHANGED <<clientVars, parseVars, revision, apiKeyConfigured, formData, overallFeedback,
                   observation, response, lastReply, firstScoreReply, quotaSeen,
                   feedbackReply, observationReply>>

\* The transcription call returns; on success the loop issues its first
\* getLLMResponse.
TranscriptionReturns(outcome) ==
    /\ pc = "transcribing"
    /\ transcriptionOutcome' = outcome
    /\ IF TranscriptionAborts(outcome)
       THEN /\ Finish(TranscriptionErrorResponse(revision, outcome))
            /\ outstanding' = outstanding - 1
            /\ UNCHANGED <<idx, transcript, generatedScores, analysisHadQuotaError, calls>>
       ELSE /\ transcript' = outcome.text
            /\ generatedScores' = EmptyScores
            /\ analysisHadQuotaError' = FALSE
            /\ idx' = 1
            /\ calls' = Append(calls, CompletionCall(callEvaluationParameters[1].key))
            /\ outstanding' = (outstanding - 1) + 1
            /\ pc' = "scoring"
            /\ UNCHANGED response
    /\ UNCHANGED <<clientVars, parseVars, revision, apiKeyConfigured, formData, overallFeedback,
                   observation, lastReply, firstScoreReply, quotaSeen,
                   feedbackReply, observationReply>>

\* One getLLMResponse of the scoring loop returns; the handler stores the
\* score and goes on to its next await, or to the response.
ScoreReturns(outcome) ==
    /\ pc = "scoring"
    /\ LET param == callEvaluationParameters[idx]
           reply == getLLMResponse(outcome)
           flag  == QuotaFlagAfter(analysisHadQuotaError, reply)
           sc    == WithScore(generatedScores, param.key, ScoreFor(reply, param))
       IN  IF getLLMResponsePropagates(outcome)
           THEN /\ Finish(UnexpectedErrorResponse(revision, "completion failed"))
                /\ outstanding' = outstanding - 1
                /\ UNCHANGED <<idx, generatedScores, analysisHadQuotaError,
                               overallFeedback, observation, calls, lastReply,
                               firstScoreReply, quotaSeen>>
           ELSE /\ generatedScores' = sc
                /\ analysisHadQuotaError' = flag
                /\ lastReply' = reply
                /\ firstScoreReply' = IF idx = 1 THEN reply ELSE firstScoreReply
                /\ quotaSeen' = (quotaSeen \/ reply = ErrorQuota)
                /\ IF idx < NumParams
                   THEN /\ idx' = idx + 1
                        /\ calls' = Append(calls,
                               CompletionCall(callEvaluationParameters[idx + 1].key))
                        /\ outstanding' = (outstanding - 1) + 1
                        /\ UNCHANGED <<pc, overallFeedback, observation, response>>
                   ELSE IF SkipSummary(flag)
                   THEN /\ overallFeedback' = DegradedFeedback(revision)
                        /\ observation' = DegradedObservation(revision)
                        /\ Finish(ResultResponse(transcript, sc,
                               DegradedFeedback(revision), DegradedObservation(revision)))
                        /\ outstanding' = outstanding - 1
                        /\ UNCHANGED <<idx, calls>>
                   ELSE /\ overallFeedback' = InitialFeedback(revision)
                        /\ observation' = InitialObservation(revision)
                        /\ calls' = Append(calls, CompletionCall("overallFeedback"))
                        /\ outstanding' = (outstanding - 1) + 1
                        /\ pc' = "feedback"
                        /\ UNCHANGED <<idx, response>>
    /\ UNCHANGED <<clientVars, parseVars, revision, apiKeyConfigured, formData, transcript,
                   feedbackReply, observationReply, transcriptionOutcome>>

\* The feedback call returns; the handler issues the observation call.
FeedbackReturns(outcome) ==
    /\ pc = "feedback"
    /\ LET reply == getLLMResponse(outcome)
       IN  IF getLLMResponsePropagates(outcome)
           THEN /\ Finish(UnexpectedErrorResponse(revision, "completion failed"))
                /\ outstanding' = outstanding - 1
                /\ UNCHANGED <<overallFeedback, calls, lastReply, feedbackReply>>
           ELSE /\ overallFeedback' = FeedbackText(revision, reply)
                /\ lastReply' = reply
                /\ feedbackReply' = reply
                /\ calls' = Append(calls, CompletionCall("observation"))
                /\ outstanding' = (outstanding - 1) + 1
                /\ pc' = "observation"
                /\ UNCHANGED response
    /\ UNCHANGED <<clientVars, parseVars, revision, apiKeyConfigured, formData, idx, transcript,
                   generatedScores, analysisHadQuotaError, observation,
                   firstScoreReply, quotaSeen, observationReply, transcriptionOutcome>>

\* The observation call returns; the handler answers.
ObservationReturns(outcome) ==
    /\ pc = "observation"
    /\ LET reply == getLLMResponse(outcome)
       IN  IF getLLMResponsePropagates(outcome)
           THEN /\ Finish(UnexpectedErrorResponse(revision, "completion failed"))
                /\ UNCHANGED <<observation, lastReply, observationReply>>
           ELSE /\ observation' = ObservationText(revision, reply)
                /\ lastReply' = reply
                /\ observationReply' = reply
                /\ Finish(ResultResponse(transcript, generatedScores, overallFeedback,
                       ObservationText(revision, reply)))
    /\ outstanding' = outstanding - 1
    /\ UNCHANGED <<clientVars, parseVars, revision, apiKeyConfigured, formData, idx, transcript,
                   generatedScores, analysisHadQuotaError, overallFeedback, calls,
                   firstScoreReply, quotaSeen, feedbackReply, transcriptionOutcome>>

-----------------------------------------------------------------------------
(* POST of the mocked revision *)

\* const transcript = `...`; const mockedScores = {}
StartMock ==
    /\ pc = "start"
    /\ revision = RevMocked
    /\ formData # "throws"
    /\ ~MissingFile(formData)
    /\ transcript' = MockedTranscript
    /\ generatedScores' = EmptyScores
    /\ idx' = 1
    /\ pc' = "mocking"
    /\ UNCHANGED <<clientVars, parseVars, revision, apiKeyConfigured, formData,
                   analysisHadQuotaError, overallFeedback, observation, response,
                   historyVars>>

\* One call of the forEach callback; after the last one the three fixed
\* scores and the two texts are set and the handler awaits its timer.
MockDraw(r) ==
    /\ pc = "mocking"
    /\ LET param == callEvaluationParameters[idx]
           sc    == WithScore(generatedScores, param.key, MockScore(param, r))
       IN  IF idx < NumParams
           THEN /\ generatedScores' = sc
                /\ idx' = idx + 1
                /\ UNCHANGED <<pc, overallFeedback, observation>>
           ELSE /\ generatedScores' = MockOverrides(sc)
                /\ overallFeedback' = MockedFeedback
                /\ observation' = MockedObservation
                /\ pc' = "delay"
                /\ UNCHANGED idx
    /\ UNCHANGED <<clientVars, parseVars, revision, apiKeyConfigured, formData, transcript,
                   analysisHadQuotaError, response, historyVars>>

\* The timer fires; the handler answers.
MockRespond ==
    /\ pc = "delay"
    /\ Finish(ResultResponse(transcript, generatedScores, overallFeedback, observation))
    /\ UNCHANGED <<clientVars, parseVars, revision, apiKeyConfigured, formData, idx, transcript,
                   generatedScores, analysisHadQuotaError, overallFeedback,
                   observation, historyVars>>

-----------------------------------------------------------------------------
(* The client page: its handlers.  React applies the state updates of a     *)
(* handler and renders again before the next event is delivered, so each    *)
(* handler is one step, and handleProcessClick is two: up to the fetch, and *)
(* from the settled fetch to the end of its finally block.                  *)

\* The type check of processFile.
IsAudioFile(file) ==
    \/ file.type = "audio/mpeg"
    \/ file.type = "audio/wav"
    \/ endsWith(file.name, <<".", "m", "p", "3">>)
    \/ endsWith(file.name, <<".", "w", "a", "v">>)

\* <input type="file" disabled={isLoading} />
InputDisabledMutantNever(loading) == FALSE
InputDisabled(loading) == loading

\* <button disabled={isLoading || !selectedFile}>
ButtonDisabledMutantIgnoresLoading(loading, file) == file = NoFile
ButtonDisabled(loading, file) == loading \/ file = NoFile

\* processFile(file)
processFile(file) ==
    IF ~IsAudioFile(file)
    THEN /\ error' = InvalidTypeText
         /\ selectedFile' = NoFile
         /\ audioSrc' = NoFile
         /\ UNCHANGED feedback
    ELSE /\ selectedFile' = file
         /\ audioSrc' = file
         /\ error' = Null
         /\ feedback' = NoFeedback

handleFileChange(files) ==
    /\ ~InputDisabled(isLoading)
    /\ IF files # <<>>
       THEN processFile(files[1])
       ELSE /\ selectedFile' = NoFile
            /\ audioSrc' = NoFile
            /\ UNCHANGED <<error, feedback>>
    /\ lastEvent' = "change"
    /\ UNCHANGED <<clientRevision, isLoading, isDragging, inFlight, handled,
                   parseVars, postVars, historyVars>>

onDragOver ==
    /\ isDragging' = TRUE
    /\ lastEvent' = "dragover"
    /\ UNCHANGED <<clientRevision, selectedFile, audioSrc, feedback, isLoading, error,
                   inFlight, handled, parseVars, postVars, historyVars>>

onDragEnter ==
    /\ isDragging' = TRUE
    /\ lastEvent' = "dragenter"
    /\ UNCHANGED <<clientRevision, selectedFile, audioSrc, feedback, isLoading, error,
                   inFlight, handled, parseVars, postVars, historyVars>>

onDragLeave ==
    /\ isDragging' = FALSE
    /\ lastEvent' = "dragleave"
    /\ UNCHANGED <<clientRevision, selectedFile, audioSrc, feedback, isLoading, error,
                   inFlight, handled, parseVars, postVars, historyVars>>

onDrop(files) ==
    /\ isDragging' = FALSE
    /\ IF isLoading
       THEN UNCHANGED <<selectedFile, audioSrc, error, feedback>>
       ELSE IF files # <<>>
       THEN processFile(files[1])
       ELSE UNCHANGED <<selectedFile, audioSrc, error, feedback>>
    /\ lastEvent' = "drop"
    /\ UNCHANGED <<clientRevision, isLoading, inFlight, handled,
                   parseVars, postVars, historyVars>>

\* handleProcessClick up to `await fetch(...)`; the button delivers the
\* click only while it is enabled.
handleProcessClick ==
    /\ ~ButtonDisabled(isLoading, selectedFile)
    /\ IF selectedFile = NoFile
       THEN /\ error' = SelectFirstText
            /\ UNCHANGED <<isLoading, feedback, inFlight>>
       ELSE /\ isLoading' = TRUE
            /\ error' = Null
            /\ feedback' = NoFeedback
            /\ inFlight' = Append(inFlight, selectedFile)
    /\ lastEvent' = "click"
    /\ UNCHANGED <<clientRevision, selectedFile, audioSrc, isDragging, handled,
                   parseVars, postVars, historyVars>>

\* errorMessage at the end of the inner try/catch of `if (!response.ok)`.
ErrorMessageOf(reply) ==
    IF reply.body.shape = "object" /\ reply.body.message # Absent
    THEN reply.body.message
    ELSE IF reply.body.shape = "object" /\ reply.body.error # Absent
    THEN reply.body.error
    ELSE ApiErrorText(reply)

\* setError(err.message || "An unexpected error occurred. Please try again.")
CaughtMessage(message) == IF message = <<>> THEN UnexpectedText ELSE message

\* `const data = await response.json(); setFeedback(data)` on a body that
\* has not been read yet.
StoreData(reply) ==
    IF reply.body.shape = "notjson"
    THEN error' = CaughtMessage(JsonSyntaxText) /\ UNCHANGED feedback
    ELSE feedback' = reply.body /\ UNCHANGED error

\* part_001: a non-OK response throws new Error(errorMessage), the catch
\* block stores its message.
SettlePart001(reply) ==
    CASE reply.kind = "rejected" -> error' = CaughtMessage(FetchFailedText) /\ UNCHANGED feedback
      [] reply.kind = "notok"    ->
             error' = CaughtMessage(ErrorMessageOf(reply)) /\ UNCHANGED feedback
      [] reply.kind = "ok"       -> StoreData(reply)

\* page.tsx: the `throw new Error(errorMessage)` and one closing brace of
\* `if (!response.ok) {` are gone.  A non-OK response therefore reaches the
\* second response.json(), which rejects because the body was read by the
\* first; the catch block stores that error's message, which depends on the
\* browser.  The brace can be put back before `const data` (an OK response
\* is stored) or after `setFeedback(data)` (an OK response is dropped).
SettlePage(reply) ==
    CASE reply.kind = "rejected" -> error' = FetchFailedText /\ UNCHANGED feedback
      [] reply.kind = "notok"    -> (\E t \in BodyUsedTexts : error' = t) /\ UNCHANGED feedback
      [] reply.kind = "ok"       ->
             \E braceBeforeData \in BOOLEAN :
                 IF braceBeforeData THEN StoreData(reply)
                 ELSE UNCHANGED <<error, feedback>>

\* The fetch settles and handleProcessClick runs to the end of `finally`.
FetchSettles(reply) ==
    /\ inFlight # <<>>
    /\ inFlight' = Tail(inFlight)
    /\ handled' = reply
    /\ IF clientRevision = ClientPart001 THEN SettlePart001(reply) ELSE SettlePage(reply)
    /\ isLoading' = FALSE
    /\ lastEvent' = "response"
    /\ UNCHANGED <<clientRevision, selectedFile, audioSrc, isDragging,
                   parseVars, postVars, historyVars>>

-----------------------------------------------------------------------------
(* Specifications *)

Next ==
    \/ RejectNoKey
    \/ FormDataThrows
    \/ RejectNoFile
    \/ StartTranscription
    \/ \E o \in TranscriptionOutcomes : TranscriptionReturns(o)
    \/ \E o \in CompletionOutcomes : ScoreReturns(o)
    \/ \E o \in CompletionOutcomes : FeedbackReturns(o)
    \/ \E o \in CompletionOutcomes : ObservationReturns(o)
    \/ StartMock
    \/ \E r \in RandomDraws : MockDraw(r)
    \/ MockRespond

Spec == Init /\ [][Next]_vars

NextParse == ParseCall

SpecParse == InitParse /\ [][NextParse]_vars

\* Both together: a request handled by POST, or parseNumericScore on its own.
InitBoth == Init \/ InitParse

NextBoth == (parsePc = "idle" /\ Next) \/ NextParse

SpecBoth == InitBoth /\ [][NextBoth]_vars

\* The client page on its own, in either revision.
InitClient ==
    /\ clientRevision \in ClientRevisions
    /\ ClientFresh
    /\ ParseIdle
    /\ revision = RevLive
    /\ apiKeyConfigured = TRUE
    /\ formData = "file"
    /\ PostFresh

NextClient ==
    \/ \E files \in FileLists : handleFileChange(files)
    \/ onDragOver
    \/ onDragEnter
    \/ onDragLeave
    \/ \E files \in FileLists : onDrop(files)
    \/ handleProcessClick
    \/ \E reply \in FetchReplies : FetchSettles(reply)

SpecClient == InitClient /\ [][NextClient]_vars

-----------------------------------------------------------------------------
(* Vocabulary of the properties *)

Done == pc = "done"

TranscriptionSucceeded == transcriptionOutcome.kind = "ok"

TranscriptionFailed == transcriptionOutcome.kind \in {"apierror", "error"}

IsErrorReply(reply) == startsWith(reply, ErrorPrefix)

CompletionCalls == SelectSeq(calls, LAMBDA c : c.api = "completion")

SummaryCalls ==
    SelectSeq(calls, LAMBDA c : c.purpose \in {"overallFeedback", "observation"})

ScoresWithinWeights(sc) ==
    /\ DOMAIN sc = RubricKeys
    /\ \A k \in RubricKeys : sc[k] \in 0..WeightOf(k)

\* The spans <<i, j>> of the first signed integer written in a text: an
\* optional minus sign immediately followed by a maximal run of digits, with
\* no digit before it.
FirstIntegerSpans(text) ==
    {span \in (1..Len(text)) \X (1..Len(text)) :
        LET i == span[1]
            j == span[2]
            d == IF text[i] = "-" THEN i + 1 ELSE i
        IN  /\ d <= j
            /\ \A q \in d..j : IsDigit(text[q])
            /\ \A q \in 1..(i - 1) : ~IsDigit(text[q])
            /\ (j < Len(text) => ~IsDigit(text[j + 1]))
            /\ (text[i] # "-" /\ i > 1 => text[i - 1] # "-")}

\* The integer written at a span.
IntegerAt(text, span) ==
    LET i == span[1]
        j == span[2]
    IN  IF text[i] = "-" THEN 0 - DigitsValue(SubSeq(text, i + 1, j))
        ELSE DigitsValue(SubSeq(text, i, j))

Clamped(s, w) == IF s < 0 THEN 0 ELSE IF s > w THEN w ELSE s

-----------------------------------------------------------------------------
(* C1 *)

\* C1: for every reply text, every weight w > 0 and both input kinds,
\* parseNumericScore returns an integer r with 0 <= r <= w.
C1_ScoreWithinWeight ==
    parsePc = "returned" => parseResult \in 0..weight

\* A SCORE reply whose integer exceeds the weight was parsed and cut to it.
C1_Witness ==
    /\ parsePc = "returned"
    /\ inputType = "SCORE"
    /\ \E span \in FirstIntegerSpans(llmResponseText) :
           IntegerAt(llmResponseText, span) > weight
    /\ parseResult = weight

-----------------------------------------------------------------------------
(* C2 *)

\* C2: every status-200 response carries a scores map with exactly the ten
\* rubric keys, each an integer in [0, weight of its parameter], in the live
\* revisions whatever the completion calls did and in the mocked revision.
C2_ScoreMapComplete ==
    response.status = 200 =>
        /\ "scores" \in response.fields
        /\ ScoresWithinWeights(response.scores)

\* A live request answered 200 after a reply above the weight and a failed
\* call.
C2_Witness ==
    /\ Done
    /\ response.status = 200
    /\ IsLive(revision)
    /\ firstScoreReply = ErrorApi
    /\ lastReply = <<"1", "8">>
    /\ response.scores["fatalToneLanguage"] = 15

\* The mocked revision answers 200 with a drawn score at its upper end.
C2_WitnessMocked ==
    /\ Done
    /\ response.status = 200
    /\ revision = RevMocked
    /\ response.scores["collectionUrgency"] = 14

-----------------------------------------------------------------------------
(* C3 *)

\* Index of the rubric parameter whose reply lastReply holds, 0 if none.
LastScoredIndex ==
    IF pc = "scoring" THEN idx - 1
    ELSE IF pc = "feedback" THEN NumParams
    ELSE IF Done /\ response.status = 200 /\ IsLive(revision) /\ feedbackReply = NoReply
         THEN NumParams
         ELSE 0

\* C3: once transcription has succeeded, no outcome of the completion calls
\* makes the request fail: it ends with status 200 and an AnalysisResult, a
\* score whose call failed or replied nothing is 0, and feedback/observation
\* whose call failed hold a fixed text.
C3_CompletionFailuresAbsorbed ==
    /\ (TranscriptionSucceeded /\ Done) =>
           /\ response.status = 200
           /\ response.fields = ResultFields
           /\ response.transcript = transcriptionOutcome.text
           /\ (IsErrorReply(firstScoreReply) \/ firstScoreReply = <<>>)
                  => response.scores["greeting"] = 0
           /\ IsErrorReply(feedbackReply)
                  => response.overallFeedback = FailedFeedback(revision)
           /\ IsErrorReply(observationReply)
                  => response.observation = FailedObservation(revision)
           /\ quotaSeen
                  => /\ response.overallFeedback = DegradedFeedback(revision)
                     /\ response.observation = DegradedObservation(revision)
    /\ (LastScoredIndex > 0 /\ (IsErrorReply(lastReply) \/ lastReply = <<>>)) =>
           generatedScores[callEvaluationParameters[LastScoredIndex].key] = 0

\* A request whose first scoring call, feedback call and observation call
\* all failed, answered 200.
C3_Witness ==
    /\ Done
    /\ TranscriptionSucceeded
    /\ firstScoreReply = ErrorApi
    /\ feedbackReply = ErrorQuota
    /\ observationReply = ErrorApi
    /\ response.status = 200

-----------------------------------------------------------------------------
(* C4 *)

\* C4: if the transcription call fails, POST ends with an error response, no
\* completion call is issued, and the response holds no transcript and no
\* scores.
C4_TranscriptionFailureAborts ==
    TranscriptionFailed =>
        /\ Done
        /\ response.status >= 400
        /\ "error" \in response.fields
        /\ CompletionCalls = <<>>
        /\ response.fields \cap {"transcript", "scores"} = {}
        /\ outstanding = 0

\* Transcription failed with an error that is not a quota error.
C4_Witness ==
    /\ Done
    /\ transcriptionOutcome.kind = "error"
    /\ calls = <<TranscriptionCall>>

-----------------------------------------------------------------------------
(* C5 *)

\* C5 as stated: a request without an uploaded file is answered 400
\* "No audio file uploaded." and no external call is attempted.
C5_Original ==
    (formData = "nofile" /\ Done) =>
        /\ response.status = 400
        /\ response.error = "No audio file uploaded."
        /\ calls = <<>>

\* C5 amended: a request without an uploaded file never causes an external
\* call, and it is answered 400 "No audio file uploaded." whenever the API
\* key is configured or the revision is the mocked one (which has no key
\* check); with the key missing a live revision answers 500 first.
C5_NoFileRejected ==
    formData = "nofile" =>
        /\ calls = <<>>
        /\ outstanding = 0
        /\ (Done /\ (apiKeyConfigured \/ revision = RevMocked)) =>
               /\ response.status = 400
               /\ response.error = "No audio file uploaded."
               /\ response.fields = {"error"}

\* A live revision with its key rejected a request without a file.
C5_Witness ==
    /\ Done
    /\ formData = "nofile"
    /\ revision = RevLive
    /\ apiKeyConfigured
    /\ response.status = 400

-----------------------------------------------------------------------------
(* C6 *)

\* C6 as stated: if the first scoring call returns a quota error, all ten
\* rubric keys have score 0 and feedback/observation are the degraded texts.
C6_Original ==
    (Done /\ TranscriptionSucceeded /\ firstScoreReply = ErrorQuota) =>
        /\ DOMAIN response.scores = RubricKeys
        /\ \A k \in RubricKeys : response.scores[k] = 0
        /\ response.overallFeedback = DegradedFeedback(revision)
        /\ response.observation = DegradedObservation(revision)

\* C6 amended: if the first scoring call returns a quota error, the response
\* contains all ten rubric keys, the first parameter (greeting) has score 0,
\* every other score is what its own call produced (within its weight), and
\* feedback/observation are the degraded texts, no summary call being made.
C6_FirstQuotaDegrades ==
    (Done /\ TranscriptionSucceeded /\ firstScoreReply = ErrorQuota) =>
        /\ response.status = 200
        /\ ScoresWithinWeights(response.scores)
        /\ response.scores["greeting"] = 0
        /\ response.overallFeedback = DegradedFeedback(revision)
        /\ response.observation = DegradedObservation(revision)
        /\ SummaryCalls = <<>>

\* The first call hit the quota and a later one still scored.
C6_Witness ==
    /\ Done
    /\ firstScoreReply = ErrorQuota
    /\ response.status = 200
    /\ response.scores["collectionUrgency"] = 15
    /\ lastReply # ErrorQuota

-----------------------------------------------------------------------------
(* C7 *)

\* C7: if some scoring call returned a quota error, no summary call is
\* issued and both texts are the degraded notices; if none did, exactly two
\* more completion calls are issued, feedback then observation.
C7_SummaryGatedByQuota ==
    /\ quotaSeen => SummaryCalls = <<>>
    /\ (Done /\ response.status = 200 /\ IsLive(revision)) =>
           IF quotaSeen
           THEN /\ response.overallFeedback = DegradedFeedback(revision)
                /\ response.observation = DegradedObservation(revision)
                /\ Len(CompletionCalls) = NumParams
           ELSE /\ SummaryCalls = << CompletionCall("overallFeedback"),
                                     CompletionCall("observation") >>
                /\ Len(CompletionCalls) = NumParams + 2

\* A quota error on a scoring call other than the first; the request was
\* answered without a summary call.
C7_Witness ==
    /\ Done
    /\ response.status = 200
    /\ quotaSeen
    /\ firstScoreReply # ErrorQuota
    /\ Len(calls) = NumParams + 1

-----------------------------------------------------------------------------
(* C8 *)

\* C8: the two summary calls fall back independently: each text is the
\* fixed failure text exactly when its own call returned an error and is
\* the reply otherwise, and the observation call is issued whatever the
\* feedback call returned.
C8_SummaryFallbacksIndependent ==
    /\ feedbackReply # NoReply =>
           /\ overallFeedback =
                  IF IsErrorReply(feedbackReply) THEN FailedFeedback(revision)
                  ELSE feedbackReply
           /\ SummaryCalls = << CompletionCall("overallFeedback"),
                                CompletionCall("observation") >>
    /\ (Done /\ feedbackReply # NoReply) =>
           /\ observationReply # NoReply
           /\ response.status = 200
           /\ response.overallFeedback = overallFeedback
           /\ response.observation =
                  IF IsErrorReply(observationReply) THEN FailedObservation(revision)
                  ELSE observationReply

\* The feedback call failed and the observation call answered.
C8_Witness ==
    /\ Done
    /\ feedbackReply = ErrorApi
    /\ observationReply = <<"1", "8">>
    /\ response.overallFeedback = FailedFeedback(revision)
    /\ response.observation = <<"1", "8">>

\* The observation call failed and the generated feedback was kept.
C8_WitnessConverse ==
    /\ Done
    /\ feedbackReply = <<"-", "3">>
    /\ observationReply = ErrorQuota
    /\ response.overallFeedback = <<"-", "3">>
    /\ response.observation = FailedObservation(revision)

-----------------------------------------------------------------------------
(* C9 *)

\* C9 as stated: for inputKind SCORE and a reply text containing the
\* integer s, the result is clamp(s, 0, w).
C9_Original ==
    (parsePc = "returned" /\ inputType = "SCORE") =>
        \A span \in FirstIntegerSpans(llmResponseText) :
            parseResult = Clamped(IntegerAt(llmResponseText, span), weight)

\* C9 amended: for inputKind SCORE and a reply text that does not start
\* with "ERROR_" and whose first signed integer is s, the result is
\* clamp(s, 0, w); a text that starts with "ERROR_" yields 0 whatever
\* integer it contains.
C9_ScoreIsClamped ==
    (parsePc = "returned" /\ inputType = "SCORE") =>
        IF startsWith(llmResponseText, ErrorPrefix)
        THEN parseResult = 0
        ELSE \A span \in FirstIntegerSpans(llmResponseText) :
                 parseResult = Clamped(IntegerAt(llmResponseText, span), weight)

\* A SCORE reply with words around an integer inside the range.
C9_Witness ==
    /\ parsePc = "returned"
    /\ inputType = "SCORE"
    /\ ~startsWith(llmResponseText, ErrorPrefix)
    /\ \E span \in FirstIntegerSpans(llmResponseText) :
           /\ span[1] > 1
           /\ IntegerAt(llmResponseText, span) \in 1..(weight - 1)
           /\ parseResult = IntegerAt(llmResponseText, span)

\* A SCORE reply with a negative integer.
C9_WitnessNegative ==
    /\ parsePc = "returned"
    /\ inputType = "SCORE"
    /\ \E span \in FirstIntegerSpans(llmResponseText) :
           IntegerAt(llmResponseText, span) < 0
    /\ parseResult = 0

-----------------------------------------------------------------------------
(* C10 *)

\* C10: for inputKind PASS_FAIL the result is binary: whenever an integer
\* is parsed from the reply, a positive one yields w and a zero or negative
\* one yields 0, and the result is always 0 or w.
C10_PassFailBinary ==
    (parsePc = "returned" /\ inputType = "PASS_FAIL") =>
        /\ parseResult \in {0, weight}
        /\ ~startsWith(llmResponseText, ErrorPrefix) =>
               \A span \in FirstIntegerSpans(llmResponseText) :
                   parseResult =
                       IF IntegerAt(llmResponseText, span) > 0 THEN weight ELSE 0

\* A PASS_FAIL reply with a positive integer below the weight gave the
\* full weight.
C10_Witness ==
    /\ parsePc = "returned"
    /\ inputType = "PASS_FAIL"
    /\ \E span \in FirstIntegerSpans(llmResponseText) :
           IntegerAt(llmResponseText, span) \in 1..(weight - 1)
    /\ parseResult = weight

-----------------------------------------------------------------------------
(* C11 *)

NoDigits(text) == \A i \in 1..Len(text) : ~IsDigit(text[i])

\* The word occurs in the text, in any letter case.
ContainsWord(text, word) == includes(toLowerCase(text), word)

\* C11 as stated: for PASS_FAIL and a reply text with no digits, a text
\* containing "pass" yields w, a text containing "fail" yields 0, and a
\* text containing neither yields 0.
C11_Original ==
    (parsePc = "returned" /\ inputType = "PASS_FAIL" /\ NoDigits(llmResponseText)) =>
        /\ ContainsWord(llmResponseText, KwPass) => parseResult = weight
        /\ ContainsWord(llmResponseText, KwFail) => parseResult = 0
        /\ (~ContainsWord(llmResponseText, KwPass) /\ ~ContainsWord(llmResponseText, KwFail))
               => parseResult = 0

\* C11 amended: for PASS_FAIL and a reply text with no digits that does not
\* start with "ERROR_", the result is w if the text contains "pass" or "yes"
\* (in any letter case, also when it contains "fail" as well) and 0
\* otherwise; a text that starts with "ERROR_" yields 0.
C11_KeywordFallback ==
    (parsePc = "returned" /\ inputType = "PASS_FAIL" /\ NoDigits(llmResponseText)) =>
        parseResult =
            IF startsWith(llmResponseText, ErrorPrefix) THEN 0
            ELSE IF \/ ContainsWord(llmResponseText, KwPass)
                    \/ ContainsWord(llmResponseText, KwYes)
                 THEN weight
                 ELSE 0

\* A reply without digits that says "Pass" after other words gave the weight.
C11_Witness ==
    /\ parsePc = "returned"
    /\ inputType = "PASS_FAIL"
    /\ NoDigits(llmResponseText)
    /\ ~includes(llmResponseText, KwPass)
    /\ ContainsWord(llmResponseText, KwPass)
    /\ ContainsWord(llmResponseText, KwFail)
    /\ parseResult = weight

\* A reply without digits that says only "fail" gave 0.
C11_WitnessFail ==
    /\ parsePc = "returned"
    /\ inputType = "PASS_FAIL"
    /\ llmResponseText = <<"f", "a", "i", "l">>
    /\ parseResult = 0

-----------------------------------------------------------------------------
(* C12 *)

Sentinels == {ErrorQuota, ErrorApi}

\* C12: parseNumericScore returns 0 for "ERROR_QUOTA" and for "ERROR_API",
\* for every weight and both input kinds, and a scoring call of POST that
\* yields either sentinel stores 0 for its rubric key.
C12_SentinelsScoreZero ==
    /\ (parsePc = "returned" /\ llmResponseText \in Sentinels) => parseResult = 0
    /\ (LastScoredIndex > 0 /\ lastReply \in Sentinels) =>
           /\ callEvaluationParameters[LastScoredIndex].key \in DOMAIN generatedScores
           /\ generatedScores[callEvaluationParameters[LastScoredIndex].key] = 0
    /\ (Done /\ response.status = 200 /\ firstScoreReply \in Sentinels) =>
           response.scores["greeting"] = 0

\* A request whose first scoring call hit the quota and whose last one
\* failed otherwise was answered with 0 for both keys.
C12_Witness ==
    /\ Done
    /\ response.status = 200
    /\ firstScoreReply = ErrorQuota
    /\ lastReply = ErrorApi
    /\ response.scores["greeting"] = 0
    /\ response.scores["fatalToneLanguage"] = 0

\* parseNumericScore was applied to "ERROR_API" for a PASS_FAIL parameter.
C12_WitnessParse ==
    /\ parsePc = "returned"
    /\ llmResponseText = ErrorApi
    /\ inputType = "PASS_FAIL"
    /\ parseResult = 0

-----------------------------------------------------------------------------
(* C13 *)

ConfigErrorTexts ==
    { "Server configuration error. OpenAI API key is missing.",
      "Server configuration error: OpenAI API key is missing." }

\* C13: in the live revisions a missing API key is answered with the 500
\* configuration error before the upload is read (also when reading it
\* would fail) and before any external call; and every request that ends
\* in the configuration error or in the missing-file error has made no
\* external call.
C13_ConfigAndInputErrorsFailFast ==
    /\ (IsLive(revision) /\ ~apiKeyConfigured) =>
           /\ pc \in {"start", "done"}
           /\ calls = <<>>
           /\ outstanding = 0
           /\ Done =>
                  /\ response.status = 500
                  /\ response.error \in ConfigErrorTexts
                  /\ response.fields = {"error"}
    /\ (Done /\ (response.error \in ConfigErrorTexts \/ response.status = 400)) =>
           /\ calls = <<>>
           /\ outstanding = 0
           /\ transcript = NoText

\* A live revision without its key answered a request whose body could
\* not even be read with the configuration error.
C13_Witness ==
    /\ Done
    /\ IsLive(revision)
    /\ ~apiKeyConfigured
    /\ formData = "throws"
    /\ response.status = 500
    /\ response.error \in ConfigErrorTexts

-----------------------------------------------------------------------------
(* C14 *)

\* The external calls of a request that runs to the end, in order.
FullCallOrder ==
    <<TranscriptionCall>>
        \o [i \in 1..NumParams |-> CompletionCall(callEvaluationParameters[i].key)]
        \o <<CompletionCall("overallFeedback"), CompletionCall("observation")>>

IsPrefixOf(s, t) == Len(s) <= Len(t) /\ s = SubSeq(t, 1, Len(s))

Awaiting == pc \in {"transcribing", "scoring", "feedback", "observation"}

\* C14: the calls a request has issued are always an initial part of:
\* transcription, the ten scoring calls in rubric order, feedback,
\* observation; a call is outstanding exactly while the handler awaits one,
\* and never more than one; while the i-th scoring call is outstanding
\* exactly the i-1 scores before it have been stored and i+1 calls have been
\* issued; a summary call is outstanding only when all ten scores are
\* stored.
C14_CallsSequentialAndOrdered ==
    /\ IsPrefixOf(calls, FullCallOrder)
    /\ outstanding \in {0, 1}
    /\ (outstanding = 1) <=> Awaiting
    /\ pc = "transcribing" => calls = <<TranscriptionCall>>
    /\ pc = "scoring" =>
           /\ Len(calls) = idx + 1
           /\ DOMAIN generatedScores =
                  {callEvaluationParameters[i].key : i \in 1..(idx - 1)}
    /\ pc = "feedback" =>
           /\ Len(calls) = NumParams + 2
           /\ DOMAIN generatedScores = RubricKeys
    /\ pc = "observation" =>
           /\ calls = FullCallOrder
           /\ DOMAIN generatedScores = RubricKeys
           /\ feedbackReply # NoReply

\* The observation call is outstanding, the last of twelve calls in order.
C14_Witness ==
    /\ pc = "observation"
    /\ outstanding = 1
    /\ calls = FullCallOrder
    /\ Len(calls) = NumParams + 3

-----------------------------------------------------------------------------
(* C15 *)

\* The status an upstream error carries, 500 when it carries none
\* (status 0 stands for an error without a status).
UpstreamStatusOr500(outcome) == IF outcome.status # 0 THEN outcome.status ELSE 500

\* C15: when transcription fails with an upstream service error, the error
\* response carries the upstream status (500 only when the error has none)
\* and the upstream message as its details.
C15_UpstreamErrorSurfacedVerbatim ==
    (Done /\ transcriptionOutcome.kind = "apierror") =>
        /\ response.status = UpstreamStatusOr500(transcriptionOutcome)
        /\ response.details = transcriptionOutcome.message

\* The part of C15 that both live revisions do satisfy: the details are the
\* upstream message, a 429 is answered 429, and the revision of part_000
\* answers with the upstream status.
C15_MessageSurfaced ==
    (Done /\ transcriptionOutcome.kind = "apierror") =>
        /\ response.details = transcriptionOutcome.message
        /\ transcriptionOutcome.status = 429 => response.status = 429
        /\ revision = RevLiveB =>
               response.status = UpstreamStatusOr500(transcriptionOutcome)

\* route.tsx answered an upstream 401 with 500.
C15_Diverges ==
    /\ Done
    /\ revision = RevLive
    /\ transcriptionOutcome.kind = "apierror"
    /\ transcriptionOutcome.status = 401
    /\ response.status = 500
    /\ response.details = transcriptionOutcome.message

-----------------------------------------------------------------------------
(* C16 *)

\* The text up to the end of a span, and the text after it.
UpTo(text, span) == SubSeq(text, 1, span[2])

After(text, span) == SubSeq(text, span[2] + 1, Len(text))

\* C16: in a reply text with a first signed integer (an optional minus sign
\* immediately followed by digits), whatever follows that integer has no
\* influence: the result is the one of the text cut off after the first
\* integer, and when the text does not start with "ERROR_" it is the score
\* of that first integer for the input kind.
C16_OnlyFirstIntegerCounts ==
    parsePc = "returned" =>
        \A span \in FirstIntegerSpans(llmResponseText) :
            /\ parseResult =
                   parseNumericScore(UpTo(llmResponseText, span), weight, inputType)
            /\ ~startsWith(llmResponseText, ErrorPrefix) =>
                   parseResult =
                       IF inputType = "PASS_FAIL"
                       THEN (IF IntegerAt(llmResponseText, span) > 0 THEN weight ELSE 0)
                       ELSE Clamped(IntegerAt(llmResponseText, span), weight)

\* A reply with a second number after the first integer which, taken alone,
\* would have given another score.
C16_Witness ==
    /\ parsePc = "returned"
    /\ ~startsWith(llmResponseText, ErrorPrefix)
    /\ \E span \in FirstIntegerSpans(llmResponseText) :
           /\ \E q \in (span[2] + 1)..Len(llmResponseText) : IsDigit(llmResponseText[q])
           /\ parseNumericScore(After(llmResponseText, span), weight, inputType)
                  # parseResult
           /\ parseResult = Clamped(IntegerAt(llmResponseText, span), weight)
           /\ inputType = "SCORE"

-----------------------------------------------------------------------------
(* C17 *)

ScoringCalls == SelectSeq(calls, LAMBDA c : c.purpose \in RubricKeys)

\* C17: the degraded flag is true exactly when some scoring call of the
\* request has returned a quota error so far (so a non-quota error does not
\* set it and nothing resets it); every request that passed transcription
\* and was answered made exactly ten scoring calls and stored ten scores,
\* whatever errors occurred; and when no scoring call hit the quota, both
\* summary calls were made, also after non-quota errors.
C17_FlagStickyScoringComplete ==
    /\ analysisHadQuotaError = quotaSeen
    /\ (firstScoreReply = ErrorQuota /\ IsLive(revision)) => analysisHadQuotaError
    /\ (Done /\ TranscriptionSucceeded) =>
           /\ Len(ScoringCalls) = NumParams
           /\ DOMAIN generatedScores = RubricKeys
           /\ ~analysisHadQuotaError =>
                  /\ Len(SummaryCalls) = 2
                  /\ feedbackReply # NoReply
                  /\ observationReply # NoReply

\* The first scoring call failed with a non-quota error; the other nine
\* were still made, the flag stayed down and both summary calls were made.
C17_Witness ==
    /\ Done
    /\ firstScoreReply = ErrorApi
    /\ ~analysisHadQuotaError
    /\ generatedScores["greeting"] = 0
    /\ Len(ScoringCalls) = NumParams
    /\ Len(SummaryCalls) = 2

\* A quota error on the first scoring call; the loop went on to the last
\* parameter with the flag still up.
C17_WitnessSticky ==
    /\ pc = "scoring"
    /\ idx = NumParams
    /\ firstScoreReply = ErrorQuota
    /\ lastReply # ErrorQuota
    /\ analysisHadQuotaError

-----------------------------------------------------------------------------
(* C18 *)

\* C18: at most one analysis request is in flight; isLoading is true
\* exactly while one is; whatever is selected, dropped or clicked in the
\* meantime, the selected file is the file that was sent for as long as the
\* request is in flight; and once a fetch has settled, with success or
\* failure, isLoading is false again.
C18_OneRequestFileFrozen ==
    /\ Len(inFlight) <= 1
    /\ isLoading <=> inFlight # <<>>
    /\ inFlight # <<>> =>
           /\ selectedFile = Head(inFlight)
           /\ selectedFile \in Files
           /\ audioSrc = selectedFile
    /\ lastEvent = "response" => ~isLoading

\* A file was dropped while a request was in flight, and was ignored.
C18_Witness ==
    /\ lastEvent = "drop"
    /\ isLoading
    /\ Len(inFlight) = 1
    /\ selectedFile = Head(inFlight)
    /\ ~isDragging

\* A request failed and isLoading is false again.
C18_WitnessFailed ==
    /\ lastEvent = "response"
    /\ handled.kind \in {"rejected", "notok"}
    /\ ~isLoading
    /\ inFlight = <<>>
    /\ selectedFile \in Files

-----------------------------------------------------------------------------
(* C19 *)

\* The error text the server sent: the message field if it is a string,
\* otherwise the error field, otherwise "API Error: <status> <statusText>".
ServerErrorText(reply) ==
    LET fields == IF reply.body.shape = "object"
                  THEN reply.body
                  ELSE [shape |-> "object", message |-> Absent, error |-> Absent]
    IN  CASE fields.message # Absent -> fields.message
          [] fields.message = Absent /\ fields.error # Absent -> fields.error
          [] OTHER -> <<"API Error: ">> \o DecimalString(reply.status)
                          \o <<" ", reply.statusText>>

AnsweredNotOk == lastEvent = "response" /\ handled.kind = "notok"

\* C19: when the server has answered a submit with a non-OK status, the
\* page holds feedback == null and error is the server's error text.
C19_ServerErrorShown ==
    AnsweredNotOk =>
        /\ feedback = NoFeedback
        /\ error = ServerErrorText(handled)

\* What holds of C19 in both revisions: the body of a non-OK response is
\* never stored as feedback and some error is shown; and in the revision of
\* part_001 the error is the server's error text.
C19_BodyNeverStored ==
    AnsweredNotOk =>
        /\ feedback = NoFeedback
        /\ error # Null
        /\ clientRevision = ClientPart001 => error = ServerErrorText(handled)

\* page.tsx shows the browser's "body already read" message although the
\* server sent an error text.
C19_Diverges ==
    /\ AnsweredNotOk
    /\ clientRevision = ClientPage
    /\ handled.body.shape = "object"
    /\ handled.body.error # Absent
    /\ error \in BodyUsedTexts
    /\ feedback = NoFeedback

====
